---------------------------- MODULE Spec2Model ----------------------------
(***************************************************************************)
(* A model of translate.py: the TranscriptionWorker thread (an asyncio     *)
(* loop running run_transcription, the sender task and the receiver task,  *)
(* fed by the PortAudio callback thread), the TranslationWorker thread     *)
(* (one translate thread per language, joined per transcript) and the      *)
(* TranslatorApp supervisor (toggle_listening, start_listening,            *)
(* stop_listening, cleanup_threads) over the three shared queues.          *)
(*                                                                         *)
(* Every worker created by start_listening gets a run number; the state    *)
(* of a worker is a function of its run number.  The queues of the         *)
(* TranslatorApp are shared by every run.                                  *)
(***************************************************************************)
EXTENDS Naturals, Sequences, FiniteSets

(* ------------------------------ bounds -------------------------------- *)

\* the number of start_listening calls the model follows
MaxRuns == 2
\* the number of blocks the capture callback delivers to one session
MaxBlocks == 2
\* the number of inbound messages the receivers handle, all runs together
MaxEvents == 2
\* the number of entries of TARGET_LANGUAGES the model keeps
NumLangs == 2
\* the number of transcripts on the TranscriptChannel when a lone dispatcher starts
MaxTranscripts == 2
\* the number of stop_listening calls the model follows
MaxStops == 2

Runs == 1..MaxRuns
\* the value of a worker reference that is None
NoRun == 0

(* ------------------------------ values -------------------------------- *)

\* indata.tobytes(): the model tells two block contents apart
Blocks == {"b1", "b2"}

\* a text is the sequence of its characters
Texts == {<<>>, <<" ">>, <<"a">>}

\* str(e) of the exceptions the model raises
ErrMsgs == {<<"boom">>}

CompletedType == "conversation.item.input_audio_transcription.completed"
AppendType == "input_audio_buffer.append"
UpdateType == "transcription_session.update"

\* the inbound frames: a completed transcription, an error event, an event of
\* another kind, and a frame json.loads rejects
Messages ==
    {[type |-> CompletedType, transcript |-> t, message |-> <<>>] : t \in Texts}
    \cup {[type |-> "error", transcript |-> <<>>, message |-> m] : m \in ErrMsgs}
    \cup {[type |-> "other", transcript |-> <<>>, message |-> <<>>]}
    \cup {[type |-> "malformed", transcript |-> <<>>, message |-> <<>>]}

\* TARGET_LANGUAGES, in insertion order, and the entries the model keeps
LangNames == <<"Spanish", "Swahili", "Burmese", "Pashto">>
Langs == {LangNames[i] : i \in 1..NumLangs}

\* the sentinel TranslationWorker.stop puts on transcript_queue
None == <<"None">>

\* response.choices[0].message.content of a translation call that returns
Contents == {<<"t">>, <<" ", "t", " ">>}

\* f"[Error: {e}]"
ErrorText(m) == <<"[Error: ">> \o m \o <<"]">>

\* the statuses the session puts on status_queue
Connected == <<"Connected. Listening...">>
Stopped == <<"Stopped">>
ConnectionLost == <<"Connection Lost">>
ErrorStatus(m) == <<"Error: ">> \o m
ConnectionFailed(m) == <<"Connection Failed: ">> \o m

\* the payload of sender: base64 of the block under the append type
b64encode(block) == <<"b64", block>>
Payload(block) == [type |-> AppendType, audio |-> b64encode(block)]
SessionUpdate == [type |-> UpdateType, audio |-> <<>>]

IsWhite(c) == c = " "

\* str.strip()
RECURSIVE LStrip(_)
LStrip(s) == IF s # <<>> /\ IsWhite(Head(s)) THEN LStrip(Tail(s)) ELSE s
RECURSIVE RStrip(_)
RStrip(s) ==
    IF s # <<>> /\ IsWhite(s[Len(s)]) THEN RStrip(SubSeq(s, 1, Len(s) - 1)) ELSE s
Strip(s) == RStrip(LStrip(s))

\* the truth value of a str in `if transcript:`
Truthy(s) == Len(s) > 0

IsPrefix(s, t) == Len(s) <= Len(t) /\ SubSeq(t, 1, Len(s)) = s

RECURSIVE SelectCount(_, _)
SelectCount(s, x) ==
    IF s = <<>> THEN 0
    ELSE (IF Head(s) = x THEN 1 ELSE 0) + SelectCount(Tail(s), x)

(* ------------------------------ state --------------------------------- *)

VARIABLES
    \* TranslatorApp
    transcript_queue,       \* queue.Queue of transcripts and None sentinels
    translation_queue,      \* per run, every (lang, text) its dispatcher put, with the batch
    status_queue,           \* per run, every status its session put
    transcription_worker,   \* the run of self.transcription_worker, or NoRun
    translation_worker,     \* the run of self.translation_worker, or NoRun
    created,                \* the number of start_listening calls so far
    timers,                 \* the pending after(500, cleanup_threads) callbacks
    stops,                  \* the number of stop_listening calls so far
    \* TranscriptionWorker, per run
    mainPc,                 \* where run / run_transcription stands
    senderPc,               \* where the sender task stands
    receiverPc,             \* where the receiver task stands
    stop_event,             \* self._stop_event
    audio_queue,            \* self.audio_queue
    streamOpen,             \* the sd.InputStream is inside its with block
    ws,                     \* the connection: "none", "open" or "closed"
    captured,               \* the blocks audio_callback was called with
    wire,                   \* the frames sent on the connection
    inbound,                \* the frames the receiver took from the connection
    stopAt,                 \* mainPc at the first stop() call, "never" before it
    sentAtStop,             \* the number of frames sent at the first stop() call
    \* TranslationWorker, per run
    dPc,                    \* where TranslationWorker.run stands
    dStop,                  \* self._stop_event
    english_text,           \* the transcript of the batch in hand
    batch,                  \* the number of transcripts dequeued so far
    thr,                    \* the translate thread of each language
    failed                  \* the (batch, language) pairs whose call raised

appVars == <<transcription_worker, translation_worker, created, timers, stops>>
queueVars == <<transcript_queue, translation_queue, status_queue>>
sessVars == <<mainPc, senderPc, receiverPc, stop_event, audio_queue, streamOpen,
              ws, captured, wire, inbound, stopAt, sentAtStop>>
dispVars == <<dPc, dStop, english_text, batch, thr, failed>>
vars == <<appVars, queueVars, sessVars, dispVars>>

(* --------------------------- construction ----------------------------- *)

\* TranslatorApp.__init__: three empty queues, no worker
Init ==
    /\ transcript_queue = <<>>
    /\ translation_queue = [w \in Runs |-> <<>>]
    /\ status_queue = [w \in Runs |-> <<>>]
    /\ transcription_worker = NoRun
    /\ translation_worker = NoRun
    /\ created = 0
    /\ timers = 0
    /\ stops = 0
    /\ mainPc = [w \in Runs |-> "new"]
    /\ senderPc = [w \in Runs |-> "new"]
    /\ receiverPc = [w \in Runs |-> "new"]
    /\ stop_event = [w \in Runs |-> FALSE]
    /\ audio_queue = [w \in Runs |-> <<>>]
    /\ streamOpen = [w \in Runs |-> FALSE]
    /\ ws = [w \in Runs |-> "none"]
    /\ captured = [w \in Runs |-> <<>>]
    /\ wire = [w \in Runs |-> <<>>]
    /\ inbound = [w \in Runs |-> <<>>]
    /\ stopAt = [w \in Runs |-> "never"]
    /\ sentAtStop = [w \in Runs |-> 0]
    /\ dPc = [w \in Runs |-> "new"]
    /\ dStop = [w \in Runs |-> FALSE]
    /\ english_text = [w \in Runs |-> <<>>]
    /\ batch = [w \in Runs |-> 0]
    /\ thr = [w \in Runs |-> [l \in Langs |-> "idle"]]
    /\ failed = {}

\* Thread.is_alive() of the session worker of run w
SessionAlive(w) == mainPc[w] \notin {"new", "done"}

\* status_queue.put(msg) by the worker of run w
PutStatus(w, msg) == status_queue' = [status_queue EXCEPT ![w] = Append(@, msg)]

(* ------------------------ TranscriptionWorker ------------------------- *)

\* stop(): set the stop event
TranscriptionWorker_stop(w) ==
    /\ mainPc[w] # "new"
    /\ stop_event' = [stop_event EXCEPT ![w] = TRUE]
    /\ stopAt' = [stopAt EXCEPT ![w] = IF @ = "never" THEN mainPc[w] ELSE @]
    /\ sentAtStop' = [sentAtStop EXCEPT ![w] = IF stop_event[w] THEN @ ELSE Len(wire[w])]
    /\ UNCHANGED <<mainPc, senderPc, receiverPc, audio_queue, streamOpen, ws,
                   captured, wire, inbound>>

\* audio_queue.put_nowait(item)
PutNowait(q, item) == Append(q, item)

\* audio_callback, on the PortAudio thread while the InputStream is open
audio_callback(w, indata) ==
    /\ streamOpen[w]
    /\ Len(captured[w]) < MaxBlocks
    /\ audio_queue' = [audio_queue EXCEPT ![w] = PutNowait(@, indata)]
    /\ captured' = [captured EXCEPT ![w] = Append(@, indata)]
    /\ UNCHANGED <<mainPc, senderPc, receiverPc, stop_event, streamOpen, ws, wire,
                   inbound, stopAt, sentAtStop>>
    /\ UNCHANGED <<appVars, queueVars, dispVars>>

\* the peer or the network ends the connection
ConnectionDrop(w) ==
    /\ ws[w] = "open"
    /\ ws' = [ws EXCEPT ![w] = "closed"]
    /\ UNCHANGED <<mainPc, senderPc, receiverPc, stop_event, audio_queue, streamOpen,
                   captured, wire, inbound, stopAt, sentAtStop>>
    /\ UNCHANGED <<appVars, queueVars, dispVars>>

\* the event loop runs a task only while run_transcription is suspended in an
\* await: the sleep of the polling loop, or the close of the connection on the
\* way out of a failed InputStream
LoopFree(w) == mainPc[w] \in {"sleeping", "abort"}

\* run_transcription: websockets.connect and the "Connected" status
Connect(w) ==
    /\ mainPc[w] = "connect"
    /\ \/ /\ ws' = [ws EXCEPT ![w] = "open"]
          /\ PutStatus(w, Connected)
          /\ mainPc' = [mainPc EXCEPT ![w] = "configure"]
       \/ \E m \in ErrMsgs :
            /\ PutStatus(w, ConnectionFailed(m))
            /\ mainPc' = [mainPc EXCEPT ![w] = "finally"]
            /\ UNCHANGED ws
    /\ UNCHANGED <<senderPc, receiverPc, stop_event, audio_queue, streamOpen,
                   captured, wire, inbound, stopAt, sentAtStop>>
    /\ UNCHANGED <<appVars, transcript_queue, translation_queue, dispVars>>

\* a run_transcription that creates the two tasks without the session update
ConfigureSilent(w) ==
    /\ mainPc[w] = "configure"
    /\ senderPc' = [senderPc EXCEPT ![w] = "created"]
    /\ receiverPc' = [receiverPc EXCEPT ![w] = "created"]
    /\ mainPc' = [mainPc EXCEPT ![w] = "openStream"]
    /\ UNCHANGED <<stop_event, audio_queue, streamOpen, ws, captured, wire, inbound,
                   stopAt, sentAtStop>>
    /\ UNCHANGED <<appVars, queueVars, dispVars>>

\* run_transcription: send the session update, then create the two tasks
Configure(w) ==
    /\ mainPc[w] = "configure"
    /\ IF ws[w] = "open"
       THEN /\ wire' = [wire EXCEPT ![w] = Append(@, SessionUpdate)]
            /\ senderPc' = [senderPc EXCEPT ![w] = "created"]
            /\ receiverPc' = [receiverPc EXCEPT ![w] = "created"]
            /\ mainPc' = [mainPc EXCEPT ![w] = "openStream"]
            /\ UNCHANGED status_queue
       ELSE /\ \E m \in ErrMsgs : PutStatus(w, ConnectionFailed(m))
            /\ mainPc' = [mainPc EXCEPT ![w] = "finally"]
            /\ UNCHANGED <<wire, senderPc, receiverPc>>
    /\ UNCHANGED <<stop_event, audio_queue, streamOpen, ws, captured, inbound, stopAt,
                   sentAtStop>>
    /\ UNCHANGED <<appVars, transcript_queue, translation_queue, dispVars>>

\* run_transcription: enter sd.InputStream, or fail to open the device
OpenStream(w) ==
    /\ mainPc[w] = "openStream"
    /\ \/ /\ streamOpen' = [streamOpen EXCEPT ![w] = TRUE]
          /\ mainPc' = [mainPc EXCEPT ![w] = "streaming"]
       \/ /\ mainPc' = [mainPc EXCEPT ![w] = "abort"]
          /\ UNCHANGED streamOpen
    /\ UNCHANGED <<senderPc, receiverPc, stop_event, audio_queue, ws, captured, wire,
                   inbound, stopAt, sentAtStop>>
    /\ UNCHANGED <<appVars, queueVars, dispVars>>

\* task.cancel() and the gather: a task that has not ended ends cancelled
Cancel(pc) == IF pc \in {"created", "loop", "get", "recv"} THEN "cancelled" ELSE pc

\* a loop test that reads a flag nobody sets
StopNeverSeen(w) == FALSE

\* run_transcription: `self._stop_event.is_set()` of the polling loop
StopSeen(w) == stop_event[w]

\* run_transcription: the polling loop; on the stop event leave the InputStream,
\* cancel both tasks and gather them
PollStop(w) ==
    /\ mainPc[w] = "streaming"
    /\ IF StopSeen(w)
       THEN /\ streamOpen' = [streamOpen EXCEPT ![w] = FALSE]
            /\ senderPc' = [senderPc EXCEPT ![w] = Cancel(@)]
            /\ receiverPc' = [receiverPc EXCEPT ![w] = Cancel(@)]
            /\ mainPc' = [mainPc EXCEPT ![w] = "closing"]
       ELSE /\ mainPc' = [mainPc EXCEPT ![w] = "sleeping"]
            /\ UNCHANGED <<streamOpen, senderPc, receiverPc>>
    /\ UNCHANGED <<stop_event, audio_queue, ws, captured, wire, inbound, stopAt, sentAtStop>>
    /\ UNCHANGED <<appVars, queueVars, dispVars>>

\* run_transcription: asyncio.sleep(0.1) returns
Wake(w) ==
    /\ mainPc[w] = "sleeping"
    /\ mainPc' = [mainPc EXCEPT ![w] = "streaming"]
    /\ UNCHANGED <<senderPc, receiverPc, stop_event, audio_queue, streamOpen, ws,
                   captured, wire, inbound, stopAt, sentAtStop>>
    /\ UNCHANGED <<appVars, queueVars, dispVars>>

\* run_transcription: leave the connection's async with after the gather
CloseConnection(w) ==
    /\ mainPc[w] = "closing"
    /\ ws' = [ws EXCEPT ![w] = "closed"]
    /\ mainPc' = [mainPc EXCEPT ![w] = "finally"]
    /\ UNCHANGED <<senderPc, receiverPc, stop_event, audio_queue, streamOpen,
                   captured, wire, inbound, stopAt, sentAtStop>>
    /\ UNCHANGED <<appVars, queueVars, dispVars>>

\* run_transcription: the device failed to open; the connection is closed, the
\* except clause reports, and asyncio.run cancels the tasks left
Abort(w) ==
    /\ mainPc[w] = "abort"
    /\ ws' = [ws EXCEPT ![w] = "closed"]
    /\ senderPc' = [senderPc EXCEPT ![w] = Cancel(@)]
    /\ receiverPc' = [receiverPc EXCEPT ![w] = Cancel(@)]
    /\ \E m \in ErrMsgs : PutStatus(w, ConnectionFailed(m))
    /\ mainPc' = [mainPc EXCEPT ![w] = "finally"]
    /\ UNCHANGED <<stop_event, audio_queue, streamOpen, captured, wire, inbound, stopAt,
                   sentAtStop>>
    /\ UNCHANGED <<appVars, transcript_queue, translation_queue, dispVars>>

\* a run whose finally clause puts nothing
FinallySilent(w) ==
    /\ mainPc[w] = "finally"
    /\ mainPc' = [mainPc EXCEPT ![w] = "done"]
    /\ UNCHANGED <<senderPc, receiverPc, stop_event, audio_queue, streamOpen, ws,
                   captured, wire, inbound, stopAt, sentAtStop>>
    /\ UNCHANGED <<appVars, queueVars, dispVars>>

\* run: the finally clause
Finally(w) ==
    /\ mainPc[w] = "finally"
    /\ PutStatus(w, Stopped)
    /\ mainPc' = [mainPc EXCEPT ![w] = "done"]
    /\ UNCHANGED <<senderPc, receiverPc, stop_event, audio_queue, streamOpen, ws,
                   captured, wire, inbound, stopAt, sentAtStop>>
    /\ UNCHANGED <<appVars, transcript_queue, translation_queue, dispVars>>

\* a get that leaves the item on the queue
QueueRestKeeps(q) == q

\* audio_queue.get(): the queue without the item taken
QueueRest(q) == Tail(q)

\* ws.send(json.dumps(payload)) of the block at the head of the queue: the frame
\* goes on the wire, or the send raises on a closed connection and the task
\* ends with that exception
SendHead(w) ==
    /\ audio_queue' = [audio_queue EXCEPT ![w] = QueueRest(@)]
    /\ IF ws[w] = "open"
       THEN /\ wire' = [wire EXCEPT ![w] = Append(@, Payload(Head(audio_queue[w])))]
            /\ senderPc' = [senderPc EXCEPT ![w] = "loop"]
       ELSE /\ senderPc' = [senderPc EXCEPT ![w] = "failed"]
            /\ UNCHANGED wire

\* a sender whose loop never tests the stop event
SenderLoopDeaf(w) ==
    /\ LoopFree(w)
    /\ senderPc[w] \in {"created", "loop"}
    /\ IF audio_queue[w] = <<>>
       THEN /\ senderPc' = [senderPc EXCEPT ![w] = "get"]
            /\ UNCHANGED <<audio_queue, wire>>
       ELSE SendHead(w)
    /\ UNCHANGED <<mainPc, receiverPc, stop_event, streamOpen, ws, captured, inbound,
                   stopAt, sentAtStop>>
    /\ UNCHANGED <<appVars, queueVars, dispVars>>

\* sender: the loop test, then the get (which waits on an empty queue) and the send
SenderLoop(w) ==
    /\ LoopFree(w)
    /\ senderPc[w] \in {"created", "loop"}
    /\ IF stop_event[w]
       THEN /\ senderPc' = [senderPc EXCEPT ![w] = "done"]
            /\ UNCHANGED <<audio_queue, wire>>
       ELSE IF audio_queue[w] = <<>>
            THEN /\ senderPc' = [senderPc EXCEPT ![w] = "get"]
                 /\ UNCHANGED <<audio_queue, wire>>
            ELSE SendHead(w)
    /\ UNCHANGED <<mainPc, receiverPc, stop_event, streamOpen, ws, captured, inbound,
                   stopAt, sentAtStop>>
    /\ UNCHANGED <<appVars, queueVars, dispVars>>

\* sender: the get it was waiting in returns a block, which is sent
SenderGet(w) ==
    /\ LoopFree(w)
    /\ senderPc[w] = "get"
    /\ audio_queue[w] # <<>>
    /\ SendHead(w)
    /\ UNCHANGED <<mainPc, receiverPc, stop_event, streamOpen, ws, captured, inbound,
                   stopAt, sentAtStop>>
    /\ UNCHANGED <<appVars, queueVars, dispVars>>

\* a put that places the item ahead of what is queued
QueuePutFirst(q, item) == <<item>> \o q

\* transcript_queue.put(item)
QueuePut(q, item) == Append(q, item)

\* receiver: `if transcript:` of a completed event
Accepted(transcript) == Truthy(transcript)

RECURSIVE TotalLen(_, _)
\* the number of frames the receivers of the runs 1..n have taken
TotalLen(f, n) == IF n = 0 THEN 0 ELSE Len(f[n]) + TotalLen(f, n - 1)

\* receiver: one frame of `async for msg in ws`
Receive(w, msg) ==
    /\ LoopFree(w)
    /\ receiverPc[w] \in {"created", "recv"}
    /\ ws[w] = "open"
    /\ TotalLen(inbound, MaxRuns) < MaxEvents
    /\ inbound' = [inbound EXCEPT ![w] = Append(@, msg)]
    /\ CASE msg.type = CompletedType ->
              /\ transcript_queue' =
                    IF Accepted(msg.transcript)
                    THEN QueuePut(transcript_queue, msg.transcript)
                    ELSE transcript_queue
              /\ receiverPc' = [receiverPc EXCEPT ![w] = "recv"]
              /\ UNCHANGED status_queue
         [] msg.type = "error" ->
              /\ PutStatus(w, ErrorStatus(msg.message))
              /\ receiverPc' = [receiverPc EXCEPT ![w] = "done"]
              /\ UNCHANGED transcript_queue
         [] msg.type = "malformed" ->
              /\ \E m \in ErrMsgs : PutStatus(w, ErrorStatus(m))
              /\ receiverPc' = [receiverPc EXCEPT ![w] = "done"]
              /\ UNCHANGED transcript_queue
         [] OTHER ->
              /\ receiverPc' = [receiverPc EXCEPT ![w] = "recv"]
              /\ UNCHANGED <<transcript_queue, status_queue>>
    /\ UNCHANGED <<mainPc, senderPc, stop_event, audio_queue, streamOpen, ws, captured,
                   wire, stopAt, sentAtStop>>
    /\ UNCHANGED <<appVars, translation_queue, dispVars>>

\* receiver: the connection is closed; ConnectionClosedError is reported as
\* "Connection Lost", ConnectionClosedOK ends the iteration silently
ReceiveClosed(w) ==
    /\ LoopFree(w)
    /\ receiverPc[w] \in {"created", "recv"}
    /\ ws[w] = "closed"
    /\ \/ PutStatus(w, ConnectionLost)
       \/ UNCHANGED status_queue
    /\ receiverPc' = [receiverPc EXCEPT ![w] = "done"]
    /\ UNCHANGED <<mainPc, senderPc, stop_event, audio_queue, streamOpen, ws, captured,
                   wire, inbound, stopAt, sentAtStop>>
    /\ UNCHANGED <<appVars, transcript_queue, translation_queue, dispVars>>

(* ------------------- one session worker, in detail --------------------- *)

\* the state right after start_listening has started the workers of run 1
InitSession ==
    /\ transcript_queue = <<>>
    /\ translation_queue = [w \in Runs |-> <<>>]
    /\ status_queue = [w \in Runs |-> <<>>]
    /\ transcription_worker = 1
    /\ translation_worker = 1
    /\ created = 1
    /\ timers = 0
    /\ stops = 0
    /\ mainPc = [w \in Runs |-> IF w = 1 THEN "connect" ELSE "new"]
    /\ senderPc = [w \in Runs |-> "new"]
    /\ receiverPc = [w \in Runs |-> "new"]
    /\ stop_event = [w \in Runs |-> FALSE]
    /\ audio_queue = [w \in Runs |-> <<>>]
    /\ streamOpen = [w \in Runs |-> FALSE]
    /\ ws = [w \in Runs |-> "none"]
    /\ captured = [w \in Runs |-> <<>>]
    /\ wire = [w \in Runs |-> <<>>]
    /\ inbound = [w \in Runs |-> <<>>]
    /\ stopAt = [w \in Runs |-> "never"]
    /\ sentAtStop = [w \in Runs |-> 0]
    /\ dPc = [w \in Runs |-> IF w = 1 THEN "loop" ELSE "new"]
    /\ dStop = [w \in Runs |-> FALSE]
    /\ english_text = [w \in Runs |-> <<>>]
    /\ batch = [w \in Runs |-> 0]
    /\ thr = [w \in Runs |-> [l \in Langs |-> "idle"]]
    /\ failed = {}

\* the stop signal of the session alone
StopSession(w) ==
    /\ ~stop_event[w]
    /\ TranscriptionWorker_stop(w)
    /\ UNCHANGED <<appVars, queueVars, dispVars>>

\* the steps of the thread of run_transcription
MainStep(w) ==
    \/ Connect(w)
    \/ Configure(w)
    \/ OpenStream(w)
    \/ PollStop(w)
    \/ Wake(w)
    \/ CloseConnection(w)
    \/ Abort(w)
    \/ Finally(w)

\* the steps of the two tasks
TaskStep(w) ==
    \/ SenderLoop(w)
    \/ SenderGet(w)
    \/ \E msg \in Messages : Receive(w, msg)
    \/ ReceiveClosed(w)

NextSession ==
    \/ MainStep(1)
    \/ TaskStep(1)
    \/ \E indata \in Blocks : audio_callback(1, indata)
    \/ ConnectionDrop(1)
    \/ StopSession(1)

SpecSession == InitSession /\ [][NextSession]_vars

\* the thread of the worker is scheduled, and every sleep returns
FairSession == SpecSession /\ WF_vars(MainStep(1))

(* ------------------------- TranslationWorker -------------------------- *)

\* translation_queue.put((lang, text)) by the worker of run w for its batch b
PutResult(w, b, lang, text) ==
    translation_queue' =
        [translation_queue EXCEPT ![w] = Append(@, [batch |-> b, lang |-> lang, text |-> text])]

\* stop(): set the stop event and put the sentinel
TranslationWorker_stop(w) ==
    /\ dPc[w] # "new"
    /\ dStop' = [dStop EXCEPT ![w] = TRUE]
    /\ transcript_queue' = Append(transcript_queue, None)
    /\ UNCHANGED <<dPc, english_text, batch, thr, failed>>

\* run: the test of the while loop
RunLoop(w) ==
    /\ dPc[w] = "loop"
    /\ dPc' = [dPc EXCEPT ![w] = IF dStop[w] THEN "done" ELSE "get"]
    /\ UNCHANGED <<dStop, english_text, batch, thr, failed>>
    /\ UNCHANGED <<appVars, queueVars, sessVars>>

\* run: transcript_queue.get() returns; the sentinel breaks the loop
RunGet(w) ==
    /\ dPc[w] = "get"
    /\ transcript_queue # <<>>
    /\ transcript_queue' = Tail(transcript_queue)
    /\ IF Head(transcript_queue) = None
       THEN /\ dPc' = [dPc EXCEPT ![w] = "done"]
            /\ UNCHANGED <<english_text, batch>>
       ELSE /\ dPc' = [dPc EXCEPT ![w] = "publish"]
            /\ english_text' = [english_text EXCEPT ![w] = Head(transcript_queue)]
            /\ batch' = [batch EXCEPT ![w] = @ + 1]
    /\ UNCHANGED <<dStop, thr, failed>>
    /\ UNCHANGED <<appVars, translation_queue, status_queue, sessVars>>

\* a run that goes on to the translations without putting the English text
RunPublishNothing(w) ==
    /\ dPc[w] = "publish"
    /\ dPc' = [dPc EXCEPT ![w] = "spawn"]
    /\ UNCHANGED <<dStop, english_text, batch, thr, failed>>
    /\ UNCHANGED <<appVars, queueVars, sessVars>>

\* run: put the English text on translation_queue
RunPublish(w) ==
    /\ dPc[w] = "publish"
    /\ PutResult(w, batch[w], "English", english_text[w])
    /\ dPc' = [dPc EXCEPT ![w] = "spawn"]
    /\ UNCHANGED <<dStop, english_text, batch, thr, failed>>
    /\ UNCHANGED <<appVars, transcript_queue, status_queue, sessVars>>

\* run: start one translate thread per entry of language_map
RunSpawn(w) ==
    /\ dPc[w] = "spawn"
    /\ thr' = [thr EXCEPT ![w] = [l \in Langs |-> "running"]]
    /\ dPc' = [dPc EXCEPT ![w] = "join"]
    /\ UNCHANGED <<dStop, english_text, batch, failed>>
    /\ UNCHANGED <<appVars, queueVars, sessVars>>

\* what a call of client.chat.completions.create does: it returns a content,
\* or it raises an exception with a message
Responses ==
    {[raised |-> FALSE, text |-> c] : c \in Contents}
    \cup {[raised |-> TRUE, text |-> m] : m \in ErrMsgs}

\* a translate whose except clause puts nothing
translateUncaught(w, lang, response) ==
    /\ thr[w][lang] = "running"
    /\ IF response.raised
       THEN /\ failed' = failed \cup {<<w, batch[w], lang>>}
            /\ UNCHANGED translation_queue
       ELSE /\ PutResult(w, batch[w], lang, Strip(response.text))
            /\ UNCHANGED failed
    /\ thr' = [thr EXCEPT ![w][lang] = "done"]
    /\ UNCHANGED <<dPc, dStop, english_text, batch>>
    /\ UNCHANGED <<appVars, transcript_queue, status_queue, sessVars>>

\* translate: the call returns and the stripped content is put, or it raises
\* and the error placeholder is put
translate(w, lang, response) ==
    /\ thr[w][lang] = "running"
    /\ IF response.raised
       THEN /\ PutResult(w, batch[w], lang, ErrorText(response.text))
            /\ failed' = failed \cup {<<w, batch[w], lang>>}
       ELSE /\ PutResult(w, batch[w], lang, Strip(response.text))
            /\ UNCHANGED failed
    /\ thr' = [thr EXCEPT ![w][lang] = "done"]
    /\ UNCHANGED <<dPc, dStop, english_text, batch>>
    /\ UNCHANGED <<appVars, transcript_queue, status_queue, sessVars>>

\* a join loop that returns as soon as one thread has ended
OneJoined(w) == \E l \in Langs : thr[w][l] = "done"

\* run: `for t in threads: t.join()` has returned
AllJoined(w) == \A l \in Langs : thr[w][l] = "done"

\* run: the joins return and the loop goes round
RunJoin(w) ==
    /\ dPc[w] = "join"
    /\ AllJoined(w)
    /\ dPc' = [dPc EXCEPT ![w] = "loop"]
    /\ UNCHANGED <<dStop, english_text, batch, thr, failed>>
    /\ UNCHANGED <<appVars, queueVars, sessVars>>

(* ----------------- one dispatcher worker, in detail -------------------- *)

\* the transcripts the receiver can have put: the texts it accepts
Transcripts == {t \in Texts : Accepted(t)}

\* the transcripts of a session, in the order it put them: the two accepted
\* texts in turn
Spoken(i) == IF i % 2 = 1 THEN <<"a">> ELSE <<" ">>

\* what the session can have put on the TranscriptChannel
Backlogs == {[i \in 1..n |-> Spoken(i)] : n \in 0..MaxTranscripts}

\* the workers of run 1 started, with the transcripts of the session already
\* on the TranscriptChannel
InitDispatch ==
    /\ transcript_queue \in Backlogs
    /\ translation_queue = [w \in Runs |-> <<>>]
    /\ status_queue = [w \in Runs |-> <<>>]
    /\ transcription_worker = 1
    /\ translation_worker = 1
    /\ created = 1
    /\ timers = 0
    /\ stops = 0
    /\ mainPc = [w \in Runs |-> IF w = 1 THEN "connect" ELSE "new"]
    /\ senderPc = [w \in Runs |-> "new"]
    /\ receiverPc = [w \in Runs |-> "new"]
    /\ stop_event = [w \in Runs |-> FALSE]
    /\ audio_queue = [w \in Runs |-> <<>>]
    /\ streamOpen = [w \in Runs |-> FALSE]
    /\ ws = [w \in Runs |-> "none"]
    /\ captured = [w \in Runs |-> <<>>]
    /\ wire = [w \in Runs |-> <<>>]
    /\ inbound = [w \in Runs |-> <<>>]
    /\ stopAt = [w \in Runs |-> "never"]
    /\ sentAtStop = [w \in Runs |-> 0]
    /\ dPc = [w \in Runs |-> IF w = 1 THEN "loop" ELSE "new"]
    /\ dStop = [w \in Runs |-> FALSE]
    /\ english_text = [w \in Runs |-> <<>>]
    /\ batch = [w \in Runs |-> 0]
    /\ thr = [w \in Runs |-> [l \in Langs |-> "idle"]]
    /\ failed = {}

\* the stop signal of the dispatcher alone
StopDispatcher(w) ==
    /\ ~dStop[w]
    /\ TranslationWorker_stop(w)
    /\ UNCHANGED <<appVars, translation_queue, status_queue, sessVars>>

\* the steps of the thread of TranslationWorker.run
RunStep(w) ==
    \/ RunLoop(w)
    \/ RunGet(w)
    \/ RunPublish(w)
    \/ RunSpawn(w)
    \/ RunJoin(w)

NextDispatch ==
    \/ RunStep(1)
    \/ \E lang \in Langs : \E response \in Responses : translate(1, lang, response)
    \/ StopDispatcher(1)

SpecDispatch == InitDispatch /\ [][NextDispatch]_vars

\* Thread.is_alive() of the dispatcher worker of run w
DispatcherAlive(w) == dPc[w] \notin {"new", "done"}

\* the stop signal of the dispatcher while a batch is in flight: the English
\* result of the transcript in hand is out and its translations are not all in
StopInFlight(w) ==
    /\ dPc[w] \in {"spawn", "join"}
    /\ StopDispatcher(w)

NextInFlight ==
    \/ RunStep(1)
    \/ \E lang \in Langs : \E response \in Responses : translate(1, lang, response)
    \/ StopInFlight(1)

\* the thread of the dispatcher is scheduled, and every translation call
\* returns or raises
FairDispatch ==
    /\ InitDispatch /\ [][NextInFlight]_vars
    /\ WF_vars(RunStep(1))
    /\ \A lang \in Langs : WF_vars(\E response \in Responses : translate(1, lang, response))

(* --------------------------- TranslatorApp ----------------------------- *)

\* start_listening: construct and start the two workers of a new run
start_listening ==
    /\ created < MaxRuns
    /\ created' = created + 1
    /\ transcription_worker' = created + 1
    /\ translation_worker' = created + 1
    /\ mainPc' = [mainPc EXCEPT ![created + 1] = "connect"]
    /\ dPc' = [dPc EXCEPT ![created + 1] = "loop"]
    /\ UNCHANGED <<timers, stops, queueVars>>
    /\ UNCHANGED <<senderPc, receiverPc, stop_event, audio_queue, streamOpen, ws,
                   captured, wire, inbound, stopAt, sentAtStop>>
    /\ UNCHANGED <<dStop, english_text, batch, thr, failed>>

\* stop_listening: stop the worker each reference names, then schedule
\* cleanup_threads
stop_listening ==
    /\ stops < MaxStops
    /\ stops' = stops + 1
    /\ IF transcription_worker # NoRun
       THEN TranscriptionWorker_stop(transcription_worker)
       ELSE UNCHANGED sessVars
    /\ IF translation_worker # NoRun
       THEN TranslationWorker_stop(translation_worker)
       ELSE UNCHANGED <<transcript_queue, dispVars>>
    /\ timers' = timers + 1
    /\ UNCHANGED <<transcription_worker, translation_worker, created,
                   translation_queue, status_queue>>

\* toggle_listening, the command of the button
toggle_listening ==
    IF transcription_worker # NoRun /\ SessionAlive(transcription_worker)
    THEN stop_listening
    ELSE start_listening

\* cleanup_threads, 500 ms after a stop_listening: join each worker still alive
\* for at most a second, then drop both references
cleanup_threads ==
    /\ timers > 0
    /\ timers' = timers - 1
    /\ transcription_worker' = NoRun
    /\ translation_worker' = NoRun
    /\ UNCHANGED <<created, stops, queueVars, sessVars, dispVars>>

\* what is said during run w, told apart from the speech of every other run
Said(w) == [i \in 1..w |-> "a"]

\* the frames the model of the whole application lets the session of run w
\* receive: the completed transcriptions of what is said during the run, which
\* the receiver accepts
Utterances(w) == {[type |-> CompletedType, transcript |-> Said(w), message |-> <<>>]}

\* the translation calls of the model of the whole application all return
Translations == {r \in Responses : ~r.raised /\ r.text = <<"t">>}

\* the whole application with a silent microphone, a connection that stays up
\* and translation calls that return: the supervisor, the thread of every
\* session with its receiver, and every dispatcher
Next ==
    \/ toggle_listening
    \/ cleanup_threads
    \/ \E w \in Runs : MainStep(w)
    \/ \E w \in Runs : \E msg \in Utterances(w) : Receive(w, msg)
    \/ \E w \in Runs : RunStep(w)
    \/ \E w \in Runs : \E lang \in Langs : \E response \in Translations :
          translate(w, lang, response)

Spec == Init /\ [][Next]_vars

(* ------------- one run: the receiver and the dispatcher ---------------- *)

\* the completed transcriptions among the inbound frames
Completions == {msg \in Messages : msg.type = CompletedType}

\* toggle_listening while the session of run w is the current one and alive
StopRun(w) ==
    /\ transcription_worker = w
    /\ SessionAlive(w)
    /\ stop_listening

\* run 1 from its start: the thread of the session with its receiver, the
\* dispatcher with translation calls that return, and the stop of the run
NextPipeline ==
    \/ MainStep(1)
    \/ \E msg \in Completions : Receive(1, msg)
    \/ RunStep(1)
    \/ \E lang \in Langs : \E response \in Translations : translate(1, lang, response)
    \/ StopRun(1)

SpecPipeline == InitSession /\ [][NextPipeline]_vars

\* every worker thread is scheduled, and every translation call returns
FairSpec ==
    /\ Spec
    /\ \A w \in Runs : WF_vars(MainStep(w)) /\ WF_vars(RunStep(w))
    /\ \A w \in Runs : \A lang \in Langs :
          WF_vars(\E response \in Translations : translate(w, lang, response))

(* ----------------------- what the session did -------------------------- *)

RECURSIVE AppendFrames(_)
\* the append-audio envelopes among the frames sent
AppendFrames(frames) ==
    IF frames = <<>> THEN <<>>
    ELSE (IF Head(frames).type = AppendType THEN <<Head(frames)>> ELSE <<>>)
         \o AppendFrames(Tail(frames))

\* the envelopes of a sequence of blocks
Envelopes(blocks) == [i \in 1..Len(blocks) |-> Payload(blocks[i])]

\* the statuses the worker of run w has put, in order
StatusesOf(q, w) == q[w]

NStopped(w) == SelectCount(StatusesOf(status_queue, w), Stopped)

\* the session is in its Streaming state: inside the InputStream, polling
Streaming(w) == mainPc[w] \in {"streaming", "sleeping"}

ErrorReceived(w) == \E i \in 1..Len(inbound[w]) : inbound[w][i].type = "error"

RECURSIVE NonBlankCompleted(_)
\* the texts of the completed events of a frame sequence that are not empty
\* once trimmed
NonBlankCompleted(frames) ==
    IF frames = <<>> THEN <<>>
    ELSE (IF Head(frames).type = CompletedType /\ Strip(Head(frames).transcript) # <<>>
          THEN <<Head(frames).transcript>> ELSE <<>>)
         \o NonBlankCompleted(Tail(frames))

(* ---------------------- what the dispatcher did ------------------------ *)

\* the places in the results of run w of its batch b under the label lang
ResultIdx(q, w, b, lang) ==
    {i \in 1..Len(q[w]) : q[w][i].batch = b /\ q[w][i].lang = lang}

\* the number of results run w has put for its batch b
BatchSize(q, w, b) == Cardinality({i \in 1..Len(q[w]) : q[w][i].batch = b})

\* the dispatcher of run w is through with its batch b: it has dequeued a later
\* transcript, or it is back at the top of its loop, waiting, or ended
BatchOver(w, b) == b < batch[w] \/ dPc[w] \in {"loop", "get", "done"}

\* batch b of run w has its N+1 results: one English and one per language
BatchFull(w, b) ==
    /\ Cardinality(ResultIdx(translation_queue, w, b, "English")) = 1
    /\ \A l \in Langs : Cardinality(ResultIdx(translation_queue, w, b, l)) = 1
    /\ BatchSize(translation_queue, w, b) = NumLangs + 1

(* ------------------------------ claims --------------------------------- *)

C2_OnlyNonBlankEnqueued ==
    transcript_queue = NonBlankCompleted(inbound[1])

\* C3: whenever the dispatcher is through with a transcript (it has dequeued
\* the next one, or is back at its loop test or its get, or has ended), exactly
\* N+1 results of that transcript are on the result queue: one "English" and
\* one per language, whichever translation calls failed.
C3_BatchFullBeforeNext ==
    \A w \in 1..created : \A b \in 1..batch[w] : BatchOver(w, b) => BatchFull(w, b)

\* C3's case: every translation call of the first transcript failed and the
\* dispatcher has just dequeued the second
C3_Witness ==
    /\ batch[1] = 2
    /\ dPc[1] = "publish"
    /\ \A l \in Langs : <<1, 1, l>> \in failed
    /\ BatchSize(translation_queue, 1, 1) = NumLangs + 1

\* C4: a failed call for language L on a transcript has exactly one result,
\* (L, "[Error: <message>]"); the English result of that transcript is
\* published, every other language of it gets exactly one result (its stripped
\* translation unless its own call failed) by the time the dispatcher is
\* through with the transcript, every later transcript the dispatcher is
\* through with has its N+1 results, and the dispatcher has not ended unless
\* its stop was called.
C4_FailureIsolated ==
    \A w \in 1..created : \A b \in 1..batch[w] :
        (\E l \in Langs : <<w, b, l>> \in failed) =>
            /\ \A l \in Langs :
                 LET at == ResultIdx(translation_queue, w, b, l)
                 IN  /\ <<w, b, l>> \in failed =>
                          /\ Cardinality(at) = 1
                          /\ \A i \in at : \E m \in ErrMsgs :
                                translation_queue[w][i].text = ErrorText(m)
                     /\ BatchOver(w, b) /\ <<w, b, l>> \notin failed =>
                          /\ Cardinality(at) = 1
                          /\ \A i \in at : \E c \in Contents :
                                translation_queue[w][i].text = Strip(c)
            /\ Cardinality(ResultIdx(translation_queue, w, b, "English")) = 1
            /\ \A b2 \in (b + 1)..batch[w] : BatchOver(w, b2) => BatchFull(w, b2)
            /\ dPc[w] = "done" => dStop[w]

\* C4's case: the Swahili call of the first transcript failed, its Spanish
\* call returned, and the dispatcher went on to finish the second transcript
\* with no stop called
C4_Witness ==
    /\ <<1, 1, "Swahili">> \in failed
    /\ <<1, 1, "Spanish">> \notin failed
    /\ batch[1] = 2
    /\ dPc[1] = "get"
    /\ ~dStop[1]
    /\ BatchFull(1, 2)

\* C5: a stop issued while the session is Streaming leads to the worker having
\* ended with exactly one "Stopped" status of that session, and no session
\* ever has more than one "Stopped", also after a transport error.
C5_StopYieldsStoppedOnce ==
    /\ \A w \in Runs :
         (Streaming(w) /\ stop_event[w]) ~> (mainPc[w] = "done" /\ NStopped(w) = 1)
    /\ [](\A w \in Runs : NStopped(w) <= 1)

\* C5's case: the stop came while Streaming, the connection was lost and a
\* send failed, and the worker has ended with its "Stopped"
C5_Witness ==
    /\ stopAt[1] \in {"streaming", "sleeping"}
    /\ senderPc[1] = "failed"
    /\ ConnectionLost \in {StatusesOf(status_queue, 1)[i] :
                              i \in 1..Len(StatusesOf(status_queue, 1))}
    /\ mainPc[1] = "done"
    /\ NStopped(1) = 1

\* C6 as stated: once the receiver has received an error event, no further
\* frame is sent on the connection.
C6_NoSendAfterError ==
    [][\A w \in Runs : ErrorReceived(w) => wire'[w] = wire[w]]_vars

\* C7 as stated: an error event received leads, without a stop signal, to the
\* "Stopped" status of the session.
C7_ErrorLeadsToStopped ==
    \A w \in Runs : ErrorReceived(w) ~> (NStopped(w) = 1)

\* C8 as stated: a failed send of an append-audio envelope leads to the end of
\* the session.
C8_SendFailureEndsSession ==
    \A w \in Runs : (senderPc[w] = "failed") ~> (mainPc[w] = "done")

\* C9 as stated: at no time are two session workers alive at once.
C9_OneSessionAlive ==
    \A v \in Runs : \A w \in Runs : SessionAlive(v) /\ SessionAlive(w) => v = w

\* C10: a session worker that has ended has put "Stopped" exactly once, as the
\* last of its statuses, and a worker that has not ended has not put it.
C10_StoppedOnceAndLast ==
    \A w \in Runs :
        LET st == StatusesOf(status_queue, w)
        IN  IF mainPc[w] = "done"
            THEN /\ st # <<>>
                 /\ st[Len(st)] = Stopped
                 /\ SelectCount(st, Stopped) = 1
            ELSE SelectCount(st, Stopped) = 0

\* C10's case: a worker that ended by itself, without a stop, because the
\* capture device failed to open after the connection was made; its failure
\* status comes before its "Stopped"
C10_Witness ==
    /\ mainPc[1] = "done"
    /\ ~stop_event[1]
    /\ \E m \in ErrMsgs :
         StatusesOf(status_queue, 1) = <<Connected, ConnectionFailed(m), Stopped>>

\* C11 as stated: whenever the supervisor clears a worker reference and shows
\* "Ready", the worker the reference named has ended: the session worker and
\* the dispatcher worker of that run are both no longer alive.
C11_IdleOnlyWhenBothEnded ==
    [][/\ (transcription_worker # NoRun /\ transcription_worker' = NoRun)
             => ~SessionAlive(transcription_worker)
       /\ (translation_worker # NoRun /\ translation_worker' = NoRun)
             => ~DispatcherAlive(translation_worker)]_vars

\* the English result of batch b of run w is on the result queue with the text
EnglishOut(w, b, text) ==
    \E i \in ResultIdx(translation_queue, w, b, "English") :
        translation_queue[w][i].text = text

\* C12: the text the dispatcher works on is the transcript it dequeued; when
\* the translation requests of a transcript are started, and for as long as
\* its batch is in hand after that, the ("English", text) result with that
\* text, unchanged, is on the result queue; results put are never altered; and
\* every translation result on the queue comes after the English result of
\* its transcript.
C12_EnglishBeforeTranslations ==
    /\ [][\A w \in Runs : batch'[w] # batch[w] =>
              english_text'[w] = Head(transcript_queue)]_vars
    /\ [][\A w \in Runs :
              (\E l \in Langs : thr[w][l] # "running" /\ thr'[w][l] = "running") =>
                  EnglishOut(w, batch[w], english_text[w])]_vars
    /\ [][\A w \in Runs : IsPrefix(translation_queue[w], translation_queue'[w])]_vars
    /\ [](\A w \in Runs :
              /\ dPc[w] \in {"spawn", "join"} => EnglishOut(w, batch[w], english_text[w])
              /\ \A i \in 1..Len(translation_queue[w]) :
                   translation_queue[w][i].lang # "English" =>
                       \E j \in 1..(i - 1) :
                           /\ translation_queue[w][j].lang = "English"
                           /\ translation_queue[w][j].batch = translation_queue[w][i].batch)

\* C12's case: the second transcript, a blank, is in hand; its English result
\* carries the blank unchanged and one of its translations is out after it
C12_Witness ==
    /\ batch[1] = 2
    /\ dPc[1] = "join"
    /\ english_text[1] = <<" ">>
    /\ EnglishOut(1, 2, <<" ">>)
    /\ ResultIdx(translation_queue, 1, 2, "Spanish") # {}
    /\ thr[1]["Swahili"] = "running"

RECURSIVE AcceptedOf(_)
\* the texts of the completed events of a frame sequence that the receiver
\* accepts, in order
AcceptedOf(frames) ==
    IF frames = <<>> THEN <<>>
    ELSE (IF Head(frames).type = CompletedType /\ Accepted(Head(frames).transcript)
          THEN <<Head(frames).transcript>> ELSE <<>>)
         \o AcceptedOf(Tail(frames))

\* the texts of the English results run w has put, in order
EnglishTexts(w) ==
    LET at == {i \in 1..Len(translation_queue[w]) : translation_queue[w][i].lang = "English"}
        nth[k \in 0..Len(translation_queue[w])] ==
            IF k = 0 THEN <<>>
            ELSE IF k \in at THEN Append(nth[k - 1], translation_queue[w][k].text)
            ELSE nth[k - 1]
    IN  nth[Len(translation_queue[w])]

\* the transcript the dispatcher of run w has dequeued and not yet published
InHand(w) == IF dPc[w] = "publish" THEN <<english_text[w]>> ELSE <<>>

\* the transcripts waiting on the TranscriptChannel, without the sentinels
Waiting == SelectSeq(transcript_queue, LAMBDA t : t # None)

\* C13: the accepted completion events of the session, in the order received,
\* are the English results of its dispatcher in the order published, followed
\* by the transcript the dispatcher has in hand and by the transcripts waiting
\* on the TranscriptChannel in queue order.
C13_OrderKept ==
    EnglishTexts(1) \o InHand(1) \o Waiting = AcceptedOf(inbound[1])

\* C13's case: a blank and then "a" were received, with different texts so
\* that an exchange would show, and both English results are out
C13_Witness ==
    /\ AcceptedOf(inbound[1]) = <<<<" ">>, <<"a">>>>
    /\ EnglishTexts(1) = <<<<" ">>, <<"a">>>>

\* the places of the session-configuration messages among the frames sent
UpdatesAt(frames) == {i \in 1..Len(frames) : frames[i].type = UpdateType}

\* C14: nothing is sent before the handshake has completed; at most one
\* session-configuration message is ever sent on a connection, and it is the
\* first frame sent, so every append-audio envelope comes after it; once the
\* sender task exists, exactly one has been sent.
C14_ConfigurationFirst ==
    \A w \in Runs :
        /\ wire[w] # <<>> => ws[w] # "none" /\ wire[w][1] = SessionUpdate
        /\ UpdatesAt(wire[w]) \subseteq {1}
        /\ \A i \in 2..Len(wire[w]) : wire[w][i].type = AppendType
        /\ senderPc[w] # "new" => UpdatesAt(wire[w]) = {1}

\* C14's case: a connection on which the configuration and then two
\* append-audio envelopes were sent
C14_Witness ==
    wire[1] = <<SessionUpdate, Payload("b1"), Payload("b2")>>

\* C15: a stop signalled while the batch of a transcript is in flight leads to
\* the dispatcher having ended with the N+1 results of that transcript, and of
\* every transcript before it, on the result queue; it never ends with a
\* transcript it took short of a result.
C15_InFlightBatchCompleted ==
    /\ dStop[1] ~> (dPc[1] = "done" /\ \A b \in 1..batch[1] : BatchFull(1, b))
    /\ [](dPc[1] = "done" => \A b \in 1..batch[1] : BatchFull(1, b))

\* C15's case: the stop came during the first of two transcripts, one of its
\* calls then raised and the other returned, and the dispatcher ended on its
\* stop flag with the second transcript and the sentinel still queued
C15_Witness ==
    /\ dStop[1]
    /\ dPc[1] = "done"
    /\ batch[1] = 1
    /\ <<1, 1, "Spanish">> \in failed
    /\ <<1, 1, "Swahili">> \notin failed
    /\ BatchFull(1, 1)
    /\ transcript_queue = <<Spoken(2), None>>

\* the number of append-audio envelopes the session of run w has sent since
\* its stop signal was first set
SentSinceStop(w) ==
    Len(AppendFrames(wire[w])) - Len(AppendFrames(SubSeq(wire[w], 1, sentAtStop[w])))

\* C16: once the stop signal of a session is set, at most one more append-audio
\* envelope is sent, whatever is queued or arrives, and after that one the
\* sender is at its loop test, ended or cancelled: it does not wait for a block
\* again.
C16_AtMostOneSendAfterStop ==
    \A w \in Runs :
        stop_event[w] =>
            /\ SentSinceStop(w) <= 1
            /\ SentSinceStop(w) = 1 => senderPc[w] \in {"loop", "done", "cancelled"}

\* C16's case: the stop came while the sender waited for a block; two blocks
\* arrived after it, the first was sent, and the sender ended with the second
\* still queued
C16_Witness ==
    /\ stop_event[1]
    /\ sentAtStop[1] = 1
    /\ captured[1] = <<"b1", "b2">>
    /\ AppendFrames(wire[1]) = <<Payload("b1")>>
    /\ senderPc[1] = "done"
    /\ audio_queue[1] = <<"b2">>

\* C17 as stated: a dispatcher has ended only if its own stop() was called.
C17_EndsOnlyOnOwnStop ==
    \A w \in Runs : dPc[w] = "done" => dStop[w]

\* C18 as stated: at no time are two dispatcher workers alive at once.
C18_OneDispatcherAlive ==
    \A v \in Runs : \A w \in Runs : DispatcherAlive(v) /\ DispatcherAlive(w) => v = w

\* C19 as stated: a dispatcher whose stop() has been called eventually ends.
C19_StoppedDispatcherEnds ==
    \A w \in Runs : dStop[w] ~> (dPc[w] = "done")

\* C20 as stated: the transcripts a dispatcher publishes are transcripts of
\* its own run: every English result of run w carries what was said during
\* run w.
C20_NoTranscriptAcrossRuns ==
    \A w \in Runs : \A i \in 1..Len(translation_queue[w]) :
        translation_queue[w][i].lang = "English" => translation_queue[w][i].text = Said(w)

====
